---- MODULE Spec2Model ----
(***************************************************************************)
(* Model of src/src/utilities/extendSchema.ts: extendSchema, the core      *)
(* extendSchemaImpl and the deferred bodies of the types it produces.      *)
(*                                                                         *)
(* A schema is represented by the config it is constructed from: what the  *)
(* GraphQLSchema constructor derives from a config is not part of this     *)
(* source file, so the calls are chained on the configs exactly as         *)
(* extendSchemaImpl returns them.                                          *)
(*                                                                         *)
(* Object identity is modelled by a heap: a sequence of type objects, the  *)
(* index of an object being its identity (oid).  A named reference is an   *)
(* oid, or Undefined (a JavaScript undefined).  JavaScript objects used as *)
(* maps (typeMap, field maps, value maps) are sequences of entries with    *)
(* unique names in insertion order; assigning to an existing key keeps its *)
(* position and replaces its value.                                        *)
(*                                                                         *)
(* Not modelled: descriptions of types and fields, deprecation reasons,    *)
(* default values, the specifiedByURL of scalars, directive locations,     *)
(* astNode/extensions bookkeeping: no claim settled here reads them.       *)
(***************************************************************************)
EXTENDS Integers, Sequences, FiniteSets, TLC

\* The largest number of definitions in the documents of one behaviour.
MaxDefs == 2

Undefined == 0

NoError == "none"
UnknownType == "UnknownType"
TypeError == "TypeError"

----------------------------------------------------------------------------
(* Results of evaluations that may throw.                                  *)
Ok(v) == [err |-> NoError, val |-> v]
Throw(e) == [err |-> e, val |-> <<>>]

\* The results rs of evaluating the elements of a list in turn: the list of
\* the values, or what the first element that throws threw.
FirstThrown(rs) ==
  rs[CHOOSE i \in 1..Len(rs) :
       /\ rs[i].err # NoError
       /\ \A j \in 1..(i - 1) : rs[j].err = NoError].err
Collect(rs) ==
  IF \A i \in 1..Len(rs) : rs[i].err = NoError
  THEN Ok([i \in 1..Len(rs) |-> rs[i].val])
  ELSE Throw(FirstThrown(rs))

\* [...a, ...b] of two evaluations that may throw.
Concat(a, b) ==
  IF a.err # NoError THEN a
  ELSE IF b.err # NoError THEN b
  ELSE Ok(a.val \o b.val)

RECURSIVE Flatten(_)
Flatten(seqs) == IF seqs = <<>> THEN <<>> ELSE Head(seqs) \o Flatten(Tail(seqs))

SeqToSet(s) == {s[i] : i \in 1..Len(s)}

(* A deferred, memoized body.                                              *)
Pending == [done |-> FALSE, val |-> <<>>]
Done(v) == [done |-> TRUE, val |-> v]

----------------------------------------------------------------------------
(* JavaScript objects used as maps: entries [name, val] in insertion order *)
MapHas(m, k) == \E i \in 1..Len(m) : m[i].name = k
MapGet(m, k) ==
  IF MapHas(m, k) THEN m[CHOOSE i \in 1..Len(m) : m[i].name = k].val
  ELSE Undefined
MapValues(m) == [i \in 1..Len(m) |-> m[i].val]

\* The map that assigning the entries es in turn gives: a name stands where
\* it was first assigned and holds what was assigned to it last.
FirstAssigned(es) ==
  {i \in 1..Len(es) : \A j \in 1..(i - 1) : es[j].name # es[i].name}
LastAssigned(es, n) ==
  es[CHOOSE i \in 1..Len(es) :
       /\ es[i].name = n
       /\ \A j \in (i + 1)..Len(es) : es[j].name # n]
Nth(S, k) == CHOOSE i \in S : Cardinality({j \in S : j < i}) = k - 1
Assigned(es) ==
  [k \in 1..Cardinality(FirstAssigned(es)) |->
     LastAssigned(es, es[Nth(FirstAssigned(es), k)].name)]

\* {...a, ...b} of two evaluations that may throw.
Spread(a, b) ==
  IF a.err # NoError THEN a
  ELSE IF b.err # NoError THEN b
  ELSE Ok(Assigned(a.val \o b.val))

----------------------------------------------------------------------------
(* The AST.  Every definition has the same record shape; the lists a kind  *)
(* does not have are empty.  A type node is its wrappers, outermost first, *)
(* around a name.  An optional list a node was made without is named in    *)
(* the node's `absent` and reads as undefined; its place in the record     *)
(* holds <<>>.                                                             *)
Named(n) == [wrap |-> <<>>, name |-> n]
ListOf(n) == [wrap |-> <<"List">>, name |-> n]
NonNullOf(n) == [wrap |-> <<"NonNull">>, name |-> n]

InputValue(n, t) == [name |-> n, type |-> t]
FieldDef(n, t, args) ==
  [name |-> n, type |-> t, arguments |-> args, absent |-> {}]
Variant(n, fs) == [name |-> n, fields |-> fs, absent |-> {}]
OperationType(op, n) == [operation |-> op, type |-> n]

Def(k, n, d, is, fs, ts, vs, as, ops) ==
  [kind |-> k, name |-> n, description |-> d, interfaces |-> is,
   fields |-> fs, types |-> ts, variants |-> vs, arguments |-> as,
   operationTypes |-> ops, absent |-> {}]

\* The node made without the lists named.
Without(node, lists) == [node EXCEPT !.absent = lists]

\* node.list: undefined when the node was made without it.
Optional(node, list) ==
  [absent |-> list \in node.absent, list |-> node[list]]
\* list ?? []
OrEmpty(list) == IF list.absent THEN <<>> ELSE list.list
\* list.length, which throws when list is undefined.
LengthOf(list) == IF list.absent THEN Throw(TypeError) ELSE Ok(Len(list.list))

NoNode == Def("None", "", "", <<>>, <<>>, <<>>, <<>>, <<>>, <<>>)

SchemaDefinition(d, ops) ==
  Def("SchemaDefinition", "", d, <<>>, <<>>, <<>>, <<>>, <<>>, ops)
ObjectTypeDefinition(n, is, fs) ==
  Def("ObjectTypeDefinition", n, "", is, fs, <<>>, <<>>, <<>>, <<>>)
InterfaceTypeDefinition(n, is, fs) ==
  Def("InterfaceTypeDefinition", n, "", is, fs, <<>>, <<>>, <<>>, <<>>)
UnionTypeDefinition(n, ts) ==
  Def("UnionTypeDefinition", n, "", <<>>, <<>>, ts, <<>>, <<>>, <<>>)
ScalarTypeDefinition(n) ==
  Def("ScalarTypeDefinition", n, "", <<>>, <<>>, <<>>, <<>>, <<>>, <<>>)
DataTypeDefinition(n, vs) ==
  Def("DataTypeDefinition", n, "", <<>>, <<>>, <<>>, vs, <<>>, <<>>)
DirectiveDefinition(n, as) ==
  Def("DirectiveDefinition", n, "", <<>>, <<>>, <<>>, <<>>, as, <<>>)
\* An extension fragment: a definition kind the classification loop has no
\* branch for.
ObjectTypeExtension(n, is, fs) ==
  Def("ObjectTypeExtension", n, "", is, fs, <<>>, <<>>, <<>>, <<>>)

\* An executable definition: a kind the classification loop has no branch
\* for either.
OperationDefinition ==
  Def("OperationDefinition", "", "", <<>>, <<>>, <<>>, <<>>, <<>>, <<>>)

TypeDefinitionKinds ==
  {"ObjectTypeDefinition", "InterfaceTypeDefinition", "UnionTypeDefinition",
   "ScalarTypeDefinition", "DataTypeDefinition"}
isTypeDefinitionNode(def) == def.kind \in TypeDefinitionKinds

----------------------------------------------------------------------------
(* Type objects.  how = "given": an object the caller supplied, its bodies *)
(* resolved; "extend": rebuilt from the object `from` by call `call`;      *)
(* "build": built from the AST `node` by call `call`.  The bodies          *)
(* interfaces, fields and types are deferred; values is computed at        *)
(* construction.  A body a kind does not have is Done(<<>>).               *)
TypeObj(n, k, sh, hw, c, fr, nd, exts, is, fs, ts, vs) ==
  [name |-> n, kind |-> k, shape |-> sh, how |-> hw, call |-> c, from |-> fr,
   node |-> nd, extensions |-> exts, interfaces |-> is, fields |-> fs,
   types |-> ts, values |-> vs]

Given(n, k, sh, is, fs, ts, vs) ==
  TypeObj(n, k, sh, "given", 0, Undefined, NoNode, <<>>,
          Done(is), Done(fs), Done(ts), vs)

\* A resolved type: the wrappers around a named reference.
Ref(o) == [wrap |-> <<>>, ref |-> o]
ListRef(o) == [wrap |-> <<"List">>, ref |-> o]
\* Entries of field maps, argument maps and value maps.
Field(n, t, args) == [name |-> n, val |-> [type |-> t, args |-> args]]
Arg(n, t) == [name |-> n, val |-> t]
Value(n) == [name |-> n, val |-> n]

Bodies == <<"interfaces", "fields", "types">>

----------------------------------------------------------------------------
(* The builtin registry: specifiedScalarTypes and introspectionTypes.  The *)
(* builtin instances are the first objects of every heap.                  *)
specifiedScalarTypes == <<Given("String", "Scalar", "none", <<>>, <<>>, <<>>, <<>>)>>
introspectionTypes == <<Given("__Type", "Object", "none", <<>>, <<>>, <<>>, <<>>)>>
StdHeap == specifiedScalarTypes \o introspectionTypes

stdTypeMap == [i \in 1..Len(StdHeap) |-> [name |-> StdHeap[i].name, val |-> i]]

isSpecifiedScalarType(type) ==
  \E i \in 1..Len(specifiedScalarTypes) : type.name = specifiedScalarTypes[i].name
isIntrospectionType(type) ==
  \E i \in 1..Len(introspectionTypes) : type.name = introspectionTypes[i].name

isScalarType(type) == type.kind = "Scalar"
isObjectType(type) == type.kind = "Object"
isInterfaceType(type) == type.kind = "Interface"
isUnionType(type) == type.kind = "Union"
isEnumType(type) == type.kind = "Data" /\ type.shape = "sum"
isInputObjectType(type) == type.kind = "Data" /\ type.shape = "record"

----------------------------------------------------------------------------
(* typeExtensionsMap: created empty and never assigned to; every lookup    *)
(* typeExtensionsMap[name] ?? [] therefore gives [].                       *)
typeExtensionsMap(definitions) == <<>>

Extensions(tem, name) == IF MapHas(tem, name) THEN MapGet(tem, name) ELSE <<>>

----------------------------------------------------------------------------
(* Resolution of the type expressions of the document.                     *)
\* The lookup without the check: stdTypeMap[name] ?? typeMap[name].
getNamedTypeOrUndefined(tm, name) ==
  IF MapGet(stdTypeMap, name) # Undefined THEN Ok(MapGet(stdTypeMap, name))
  ELSE Ok(MapGet(tm, name))

\* The lookup without the registry of the call: stdTypeMap[name] alone.
getStdType(tm, name) ==
  IF MapGet(stdTypeMap, name) # Undefined THEN Ok(MapGet(stdTypeMap, name))
  ELSE Throw(UnknownType)

getNamedType(tm, name) ==
  IF MapGet(stdTypeMap, name) # Undefined THEN Ok(MapGet(stdTypeMap, name))
  ELSE IF MapGet(tm, name) # Undefined THEN Ok(MapGet(tm, name))
  ELSE Throw(UnknownType)

\* The wrappers of a type node, made anew around what its name resolves to.
Wrapped(wrap, named) ==
  IF named.err # NoError THEN named ELSE Ok([wrap |-> wrap, ref |-> named.val])

getWrappedType(tm, node) == Wrapped(node.wrap, getNamedType(tm, node.name))

ArgOf(name, type) ==
  IF type.err # NoError THEN type ELSE Ok(Arg(name, type.val))
FieldOf(name, type, args) ==
  IF type.err # NoError THEN type
  ELSE IF args.err # NoError THEN args
  ELSE Ok(Field(name, type.val, args.val))
AssignedOf(entries) ==
  IF entries.err # NoError THEN entries ELSE Ok(Assigned(entries.val))

BuildArguments(tm, args) ==
  AssignedOf(Collect([i \in 1..Len(args) |->
    ArgOf(args[i].name, getWrappedType(tm, args[i].type))]))

buildArgumentMap(tm, args) == BuildArguments(tm, OrEmpty(args))

NodeFields(nodes) ==
  Flatten([i \in 1..Len(nodes) |-> OrEmpty(Optional(nodes[i], "fields"))])

BuildFields(tm, fields) ==
  AssignedOf(Collect([i \in 1..Len(fields) |->
    FieldOf(fields[i].name, getWrappedType(tm, fields[i].type),
            buildArgumentMap(tm, Optional(fields[i], "arguments")))]))

buildFieldMap(tm, nodes) == BuildFields(tm, NodeFields(nodes))

\* node.variants[0].fields of every node; a node without variants has no
\* variants[0] to read fields of.
FirstVariantFields(nodes) ==
  IF \E i \in 1..Len(nodes) : nodes[i].variants = <<>> THEN Throw(TypeError)
  ELSE Ok(Flatten([i \in 1..Len(nodes) |->
                     OrEmpty(Optional(nodes[i].variants[1], "fields"))]))

BuildInputFields(tm, fields) ==
  IF fields.err # NoError THEN fields
  ELSE AssignedOf(Collect([i \in 1..Len(fields.val) |->
         FieldOf(fields.val[i].name, getWrappedType(tm, fields.val[i].type),
                 Ok(<<>>))]))

buildInputFieldMap(tm, nodes) == BuildInputFields(tm, FirstVariantFields(nodes))

NodeVariants(nodes) ==
  Flatten([i \in 1..Len(nodes) |-> OrEmpty(Optional(nodes[i], "variants"))])

BuildValues(variants) ==
  Assigned([i \in 1..Len(variants) |-> Value(variants[i].name)])

buildEnumValueMap(nodes) == BuildValues(NodeVariants(nodes))

GetNamedTypes(tm, names) ==
  Collect([i \in 1..Len(names) |-> getNamedType(tm, names[i])])

buildInterfaces(tm, nodes) ==
  GetNamedTypes(tm, Flatten([i \in 1..Len(nodes) |->
                               OrEmpty(Optional(nodes[i], "interfaces"))]))
buildUnionTypes(tm, nodes) ==
  GetNamedTypes(tm, Flatten([i \in 1..Len(nodes) |->
                               OrEmpty(Optional(nodes[i], "types"))]))

----------------------------------------------------------------------------
(* Re-resolution of the references held by existing types.                 *)
\* typeMap[type.name]: reading .name of undefined throws a TypeError; a name
\* the registry lacks gives undefined, without error.
\* replaceNamedType() resolving as getNamedType() does: the builtin
\* registry first, then the registry of the call, else UnknownType.
replaceNamedTypeOrThrow(h, tm, ref) ==
  IF ref = Undefined THEN Throw(TypeError) ELSE getNamedType(tm, h[ref].name)

replaceNamedType(h, tm, ref) ==
  IF ref = Undefined THEN Throw(TypeError) ELSE Ok(MapGet(tm, h[ref].name))

\* The type kept as the existing type holds it.
keepType(h, tm, type) == Ok(type)

\* The wrappers of a type, made anew around the replaced named type.
replaceType(h, tm, type) == Wrapped(type.wrap, replaceNamedType(h, tm, type.ref))

ReplaceNamedTypes(h, tm, refs) ==
  Collect([i \in 1..Len(refs) |-> replaceNamedType(h, tm, refs[i])])

extendArg(h, tm, arg) == ArgOf(arg.name, replaceType(h, tm, arg.val))

ExtendArgs(h, tm, args) ==
  Collect([i \in 1..Len(args) |-> extendArg(h, tm, args[i])])

extendField(h, tm, field) ==
  FieldOf(field.name, replaceType(h, tm, field.val.type),
          ExtendArgs(h, tm, field.val.args))

ExtendFields(h, tm, fields) ==
  Collect([i \in 1..Len(fields) |-> extendField(h, tm, fields[i])])

\* extendInputObjectType's mapValue: the type of each field is replaced,
\* the rest of the field is kept.
ExtendInputFields(h, tm, fields) ==
  Collect([i \in 1..Len(fields) |->
    FieldOf(fields[i].name, replaceType(h, tm, fields[i].val.type),
            Ok(fields[i].val.args))])

----------------------------------------------------------------------------
(* The deferred bodies: what the thunk of a body of the object `type`      *)
(* computes with the registry tm of the call that made the object.         *)
InterfacesThunk(h, tm, type) ==
  IF type.how = "extend"
  THEN Concat(ReplaceNamedTypes(h, tm, h[type.from].interfaces.val),
              buildInterfaces(tm, type.extensions))
  ELSE buildInterfaces(tm, <<type.node>> \o type.extensions)

\* The fields thunk of a rebuilt type without the fields there were:
\* fields: () => buildFieldMap(extensions).
FieldsThunkOfExtensions(h, tm, type) ==
  IF type.how = "extend"
  THEN IF type.kind = "Data"
       THEN buildInputFieldMap(tm, type.extensions)
       ELSE buildFieldMap(tm, type.extensions)
  ELSE IF type.kind = "Data"
       THEN buildInputFieldMap(tm, <<type.node>>)
       ELSE buildFieldMap(tm, <<type.node>> \o type.extensions)

FieldsThunk(h, tm, type) ==
  IF type.how = "extend"
  THEN IF type.kind = "Data"
       THEN Spread(ExtendInputFields(h, tm, h[type.from].fields.val),
                   buildInputFieldMap(tm, type.extensions))
       ELSE Spread(ExtendFields(h, tm, h[type.from].fields.val),
                   buildFieldMap(tm, type.extensions))
  ELSE IF type.kind = "Data"
       THEN buildInputFieldMap(tm, <<type.node>>)
       ELSE buildFieldMap(tm, <<type.node>> \o type.extensions)

TypesThunk(h, tm, type) ==
  IF type.how = "extend"
  THEN Concat(ReplaceNamedTypes(h, tm, h[type.from].types.val),
              buildUnionTypes(tm, type.extensions))
  ELSE buildUnionTypes(tm, <<type.node>> \o type.extensions)

\* One registry for every call: the thunks of every type read the
\* registry of the latest call.
SharedRegistry(tms, type) == tms[Len(tms)]

\* The registry a thunk of the object type is closed over: the typeMap of
\* the call that made the object.
Registry(tms, type) == tms[type.call]

\* getInterfaces(), getFields(), getTypes(): the memoized value, or the
\* thunk's.
getInterfaces(h, tms, o) ==
  IF h[o].interfaces.done THEN Ok(h[o].interfaces.val)
  ELSE InterfacesThunk(h, Registry(tms, h[o]), h[o])
getFields(h, tms, o) ==
  IF h[o].fields.done THEN Ok(h[o].fields.val)
  ELSE FieldsThunk(h, Registry(tms, h[o]), h[o])
getTypes(h, tms, o) ==
  IF h[o].types.done THEN Ok(h[o].types.val)
  ELSE TypesThunk(h, Registry(tms, h[o]), h[o])

\* The object after its bodies were read in turn, interfaces first: every
\* body read before the first that threw is memoized.
Memoized(type, is, fs, ts) ==
  [type EXCEPT
     !.interfaces = IF is.err = NoError THEN Done(is.val) ELSE @,
     !.fields = IF is.err = NoError /\ fs.err = NoError THEN Done(fs.val) ELSE @,
     !.types = IF is.err = NoError /\ fs.err = NoError /\ ts.err = NoError
               THEN Done(ts.val) ELSE @]

BodiesRead(h, o, is, fs, ts) ==
  [err |-> Collect(<<is, fs, ts>>).err,
   heap |-> [h EXCEPT ![o] = Memoized(h[o], is, fs, ts)]]

\* Reading the bodies of o in turn, up to the first that throws: what was
\* thrown, and the heap with every body read memoized.
ReadBodies(h, tms, o) ==
  BodiesRead(h, o, getInterfaces(h, tms, o), getFields(h, tms, o),
             getTypes(h, tms, o))

\* type.toConfig() reads every body of the type.
toConfig(h, tms, o) == ReadBodies(h, tms, o)

----------------------------------------------------------------------------
(* Construction of type objects.  A construction gives [err, heap, type]:  *)
(* the heap with the new object appended, and its oid.                     *)
Failed(e, h) == [err |-> e, heap |-> h, type |-> Undefined]
NewType(h, obj) == [err |-> NoError, heap |-> Append(h, obj), type |-> Len(h) + 1]
SameType(h, t) == [err |-> NoError, heap |-> h, type |-> t]

\* The existing type t extended in place: Object.assign(type, {...}).
ExtendedInPlace(config, t, call, tem, is, fs, ts, vs) ==
  IF config.err # NoError THEN Failed(config.err, config.heap)
  ELSE SameType([config.heap EXCEPT ![t] =
                   TypeObj(config.heap[t].name, config.heap[t].kind,
                           config.heap[t].shape, "extend", call, t, NoNode,
                           Extensions(tem, config.heap[t].name), is, fs, ts, vs)],
                t)

\* new T({...config, ...}) of the existing type t, config being what
\* t.toConfig() gave.
Extended(config, t, call, tem, is, fs, ts, vs) ==
  IF config.err # NoError THEN Failed(config.err, config.heap)
  ELSE NewType(config.heap,
               TypeObj(config.heap[t].name, config.heap[t].kind,
                       config.heap[t].shape, "extend", call, t, NoNode,
                       Extensions(tem, config.heap[t].name), is, fs, ts, vs))

extendInputObjectType(config, t, call, tem) ==
  Extended(config, t, call, tem, Done(<<>>), Pending, Done(<<>>), <<>>)

extendEnumType(config, t, call, tem) ==
  Extended(config, t, call, tem, Done(<<>>), Done(<<>>), Done(<<>>),
           Assigned(config.heap[t].values
                    \o buildEnumValueMap(Extensions(tem, config.heap[t].name))))

extendScalarType(config, t, call, tem) ==
  Extended(config, t, call, tem, Done(<<>>), Done(<<>>), Done(<<>>), <<>>)

extendObjectType(config, t, call, tem) ==
  Extended(config, t, call, tem, Pending, Pending, Done(<<>>), <<>>)

extendInterfaceType(config, t, call, tem) ==
  Extended(config, t, call, tem, Pending, Pending, Done(<<>>), <<>>)

extendUnionType(config, t, call, tem) ==
  Extended(config, t, call, tem, Done(<<>>), Done(<<>>), Pending, <<>>)

\* The dispatch of extendNamedType on the kind of type; config is what the
\* function dispatched to gets from type.toConfig().
ExtendByKind(type, config, t, call, tem) ==
  IF isScalarType(type) THEN extendScalarType(config, t, call, tem)
  ELSE IF isObjectType(type) THEN extendObjectType(config, t, call, tem)
  ELSE IF isInterfaceType(type) THEN extendInterfaceType(config, t, call, tem)
  ELSE IF isUnionType(type) THEN extendUnionType(config, t, call, tem)
  ELSE IF isEnumType(type) THEN extendEnumType(config, t, call, tem)
  ELSE extendInputObjectType(config, t, call, tem)

extendNamedType(h, tms, t, call, tem) ==
  IF isIntrospectionType(h[t]) \/ isSpecifiedScalarType(h[t])
  THEN SameType(h, t)
  ELSE ExtendByKind(h[t], toConfig(h, tms, t), t, call, tem)

\* A body computed when the type is made instead of when it is read.
Computed(body, r) ==
  IF body.done \/ r.err # NoError THEN body ELSE Done(r.val)

\* The bodies computed while the registry is being seeded, the types of
\* the document not being in it yet: fields: buildFieldMap(nodes) and so on.
BuiltEagerly(h, astNode, kind, shape, call, tem, is, fs, ts, vs) ==
  NewType(h, TypeObj(astNode.name, kind, shape, "build", call, Undefined, astNode,
                     Extensions(tem, astNode.name),
                     Computed(is, buildInterfaces(<<>>, <<astNode>>)),
                     Computed(fs, IF kind = "Data"
                                  THEN buildInputFieldMap(<<>>, <<astNode>>)
                                  ELSE buildFieldMap(<<>>, <<astNode>>)),
                     Computed(ts, buildUnionTypes(<<>>, <<astNode>>)), vs))

Built(h, astNode, kind, shape, call, tem, is, fs, ts, vs) ==
  NewType(h, TypeObj(astNode.name, kind, shape, "build", call, Undefined, astNode,
                     Extensions(tem, astNode.name), is, fs, ts, vs))

\* The test without its second half: ext.length === 0.
isSingleVariant(astNode) == Len(astNode.variants) - 1 = 0

\* The DATA_TYPE_DEFINITION case: const [variant, ...ext] = astNode.variants.
isRecord(astNode) ==
  Len(astNode.variants) - 1 = 0 /\ Len(astNode.variants[1].fields) > 0

buildType(h, astNode, call, tem) ==
  CASE astNode.kind = "ObjectTypeDefinition" ->
         Built(h, astNode, "Object", "none", call, tem,
               Pending, Pending, Done(<<>>), <<>>)
    [] astNode.kind = "InterfaceTypeDefinition" ->
         Built(h, astNode, "Interface", "none", call, tem,
               Pending, Pending, Done(<<>>), <<>>)
    [] astNode.kind = "UnionTypeDefinition" ->
         Built(h, astNode, "Union", "none", call, tem,
               Done(<<>>), Done(<<>>), Pending, <<>>)
    [] astNode.kind = "ScalarTypeDefinition" ->
         Built(h, astNode, "Scalar", "none", call, tem,
               Done(<<>>), Done(<<>>), Done(<<>>), <<>>)
    [] astNode.kind = "DataTypeDefinition" ->
         IF astNode.variants = <<>> THEN Failed(TypeError, h)
         ELSE IF /\ Len(astNode.variants) - 1 = 0
                 /\ LengthOf(Optional(astNode.variants[1], "fields")).err # NoError
         THEN Failed(TypeError, h)
         ELSE IF isRecord(astNode)
         THEN Built(h, astNode, "Data", "record", call, tem,
                    Done(<<>>), Pending, Done(<<>>), <<>>)
         ELSE Built(h, astNode, "Data", "sum", call, tem,
                    Done(<<>>), Done(<<>>), Done(<<>>),
                    buildEnumValueMap(<<astNode>>))

----------------------------------------------------------------------------
(* extendSchemaImpl.  The state of the seeding loops is [err, heap,        *)
(* typeMap].                                                               *)
TypeEntry(n, t) == [name |-> n, val |-> t]

\* The types kept in a list: typeList.push(made.type).
SeededByPush(st, name, made) ==
  [err |-> made.err, heap |-> made.heap,
   typeMap |-> IF made.err # NoError THEN st.typeMap
               ELSE Append(st.typeMap, TypeEntry(name, made.type))]

\* typeMap[name] = made.type, unless making the type threw.
Seeded(st, name, made) ==
  [err |-> made.err, heap |-> made.heap,
   typeMap |-> IF made.err # NoError THEN st.typeMap
               ELSE Assigned(Append(st.typeMap, TypeEntry(name, made.type)))]

RECURSIVE SeedExisting(_, _, _, _, _)
SeedExisting(st, tms, types, call, tem) ==
  IF types = <<>> \/ st.err # NoError THEN st
  ELSE SeedExisting(Seeded(st, st.heap[Head(types)].name,
                           extendNamedType(st.heap, tms, Head(types), call, tem)),
                    tms, Tail(types), call, tem)

\* buildType(typeNode), whatever the name.
AlwaysBuilt(h, typeNode, call, tem) == buildType(h, typeNode, call, tem)

\* stdTypeMap[name] ?? buildType(typeNode)
StdOrBuilt(h, typeNode, call, tem) ==
  IF MapGet(stdTypeMap, typeNode.name) # Undefined
  THEN SameType(h, MapGet(stdTypeMap, typeNode.name))
  ELSE buildType(h, typeNode, call, tem)

RECURSIVE SeedTypeDefs(_, _, _, _)
SeedTypeDefs(st, typeDefs, call, tem) ==
  IF typeDefs = <<>> \/ st.err # NoError THEN st
  ELSE SeedTypeDefs(Seeded(st, Head(typeDefs).name,
                           StdOrBuilt(st.heap, Head(typeDefs), call, tem)),
                    Tail(typeDefs), call, tem)

OperationEntry(operation, type) ==
  IF type.err # NoError THEN type ELSE Ok(TypeEntry(operation, type.val))

getOperationTypes(tm, node) ==
  AssignedOf(Collect([i \in 1..Len(node.operationTypes) |->
    OperationEntry(node.operationTypes[i].operation,
                   getNamedType(tm, node.operationTypes[i].type))]))

\* schemaConfig.query && replaceNamedType(schemaConfig.query)
ReplaceRoot(h, tm, root) ==
  IF root = Undefined THEN Undefined ELSE replaceNamedType(h, tm, root).val

Directive(n, args) == [name |-> n, args |-> args]
DirectiveOf(name, args) ==
  IF args.err # NoError THEN args ELSE Ok(Directive(name, args.val))

replaceDirective(h, tm, directive) ==
  DirectiveOf(directive.name, ExtendArgs(h, tm, directive.args))

buildDirective(tm, node) ==
  DirectiveOf(node.name, buildArgumentMap(tm, Optional(node, "arguments")))

ReplaceDirectives(h, tm, directives) ==
  Collect([i \in 1..Len(directives) |-> replaceDirective(h, tm, directives[i])])

BuildDirectives(tm, nodes) ==
  Collect([i \in 1..Len(nodes) |-> buildDirective(tm, nodes[i])])

----------------------------------------------------------------------------
(* A schema config.  id is the identity of the config object; the absent   *)
(* description and the absent roots are "" and Undefined.                  *)
Config(id, d, q, m, s, ts, ds) ==
  [id |-> id, description |-> d, query |-> q, mutation |-> m,
   subscription |-> s, types |-> ts, directives |-> ds]

isSchemaDefinition(def) == def.kind = "SchemaDefinition"
isDirectiveDefinition(def) == def.kind = "DirectiveDefinition"

\* schemaDef after the classification loop: the last schema definition.
LastOf(found) == IF found = <<>> THEN NoNode ELSE found[Len(found)]
SchemaDef(definitions) == LastOf(SelectSeq(definitions, isSchemaDefinition))

\* The test of the no-op shortcut.
NothingToDo(tem, typeDefs, directiveDefs, schemaDef) ==
  /\ Len(tem) = 0
  /\ Len(typeDefs) = 0
  /\ Len(directiveDefs) = 0
  /\ schemaDef = NoNode

\* What a call gives: [err, heap, typeMap, config].
Returned(h, tm, config) ==
  [err |-> NoError, heap |-> h, typeMap |-> tm, config |-> config]
Thrown(e, h, schemaConfig) ==
  [err |-> e, heap |-> h, typeMap |-> <<>>, config |-> schemaConfig]

\* The shortcut returning a copy of schemaConfig: {...schemaConfig}.
ReturnCopy(h, schemaConfig) ==
  Returned(h, <<>>, [schemaConfig EXCEPT !.id = @ + 1])

\* The no-op shortcut: return schemaConfig.
ReturnSame(h, schemaConfig) == Returned(h, <<>>, schemaConfig)

\* The spread the other way round, the carried root winning:
\* {...getOperationTypes(), query: ..., mutation: ..., subscription: ...}
RootCarriedFirst(opTypes, operation, carried) ==
  IF carried # Undefined THEN carried
  ELSE IF MapHas(opTypes, operation) THEN MapGet(opTypes, operation)
  ELSE Undefined

\* {query: ..., mutation: ..., subscription: ..., ...getOperationTypes()}
Root(opTypes, operation, carried) ==
  IF MapHas(opTypes, operation) THEN MapGet(opTypes, operation) ELSE carried

\* schemaDef?.description?.value
Description(schemaConfig, schemaDef) ==
  IF schemaDef = NoNode THEN "" ELSE schemaDef.description

\* Object.values(typeMap)
TypeList(typeMap) == MapValues(typeMap)

\* The statements after the seeding loops.
Assemble(schemaConfig, seeded, schemaDef, opTypes, replaced, built, newId) ==
  IF seeded.err # NoError THEN Thrown(seeded.err, seeded.heap, schemaConfig)
  ELSE IF opTypes.err # NoError THEN Thrown(opTypes.err, seeded.heap, schemaConfig)
  ELSE IF replaced.err # NoError THEN Thrown(replaced.err, seeded.heap, schemaConfig)
  ELSE IF built.err # NoError THEN Thrown(built.err, seeded.heap, schemaConfig)
  ELSE Returned(seeded.heap, seeded.typeMap,
         Config(newId,
                Description(schemaConfig, schemaDef),
                Root(opTypes.val, "query",
                     ReplaceRoot(seeded.heap, seeded.typeMap, schemaConfig.query)),
                Root(opTypes.val, "mutation",
                     ReplaceRoot(seeded.heap, seeded.typeMap, schemaConfig.mutation)),
                Root(opTypes.val, "subscription",
                     ReplaceRoot(seeded.heap, seeded.typeMap,
                                 schemaConfig.subscription)),
                TypeList(seeded.typeMap),
                replaced.val \o built.val))

AfterSeeding(schemaConfig, seeded, schemaDef, directiveDefs, newId) ==
  Assemble(schemaConfig, seeded, schemaDef,
           IF schemaDef = NoNode THEN Ok(<<>>)
           ELSE getOperationTypes(seeded.typeMap, schemaDef),
           ReplaceDirectives(seeded.heap, seeded.typeMap, schemaConfig.directives),
           BuildDirectives(seeded.typeMap, directiveDefs),
           newId)

\* The two seeding loops the other way round: the existing types are
\* seeded after the types of the document.
SeedDefinedFirst(h, tms, schemaConfig, typeDefs, tem) ==
  SeedExisting(SeedTypeDefs([err |-> NoError, heap |-> h, typeMap |-> <<>>],
                            typeDefs, Len(tms) + 1, tem),
               tms, schemaConfig.types, Len(tms) + 1, tem)

\* The two seeding loops.
SeedTypeMap(h, tms, schemaConfig, typeDefs, tem) ==
  SeedTypeDefs(SeedExisting([err |-> NoError, heap |-> h, typeMap |-> <<>>],
                            tms, schemaConfig.types, Len(tms) + 1, tem),
               typeDefs, Len(tms) + 1, tem)

Classified(h, tms, schemaConfig, typeDefs, tem, directiveDefs, schemaDef, newId) ==
  IF NothingToDo(tem, typeDefs, directiveDefs, schemaDef)
  THEN ReturnSame(h, schemaConfig)
  ELSE AfterSeeding(schemaConfig,
                    SeedTypeMap(h, tms, schemaConfig, typeDefs, tem),
                    schemaDef, directiveDefs, newId)

(* extendSchemaImpl(schemaConfig, documentAST) in heap h, the registries   *)
(* of the earlier calls being tms; newId is the identity of the config it  *)
(* creates.                                                                *)
extendSchemaImpl(h, tms, schemaConfig, definitions, newId) ==
  Classified(h, tms, schemaConfig,
             SelectSeq(definitions, isTypeDefinitionNode),
             typeExtensionsMap(definitions),
             SelectSeq(definitions, isDirectiveDefinition),
             SchemaDef(definitions),
             newId)

----------------------------------------------------------------------------
(* The inputs: the snapshots the caller starts from and the definitions    *)
(* its documents are made of.                                              *)
Snapshot(given, config) == [heap |-> StdHeap \o given, config |-> config]

\* The config buildASTSchema starts from: no types, no roots, no directives.
EmptySnapshot ==
  Snapshot(<<>>, Config(0, "", Undefined, Undefined, Undefined, <<>>, <<>>))

\* interface A { s: String }  type B implements A { s: String  b(x: String): [B] }
ObjectSnapshot ==
  Snapshot(
    <<Given("A", "Interface", "none", <<>>, <<Field("s", Ref(1), <<>>)>>, <<>>, <<>>),
      Given("B", "Object", "none", <<3>>,
            <<Field("s", Ref(1), <<>>), Field("b", ListRef(4), <<Arg("x", Ref(1))>>)>>,
            <<>>, <<>>)>>,
    Config(0, "orig", 4, Undefined, Undefined, <<1, 2, 3, 4>>,
           <<Directive("dir", <<Arg("x", Ref(1))>>)>>))

\* data A = X | Y   data B { f: A }   type Q { b: B }   resolver U = Q
DataSnapshot ==
  Snapshot(
    <<Given("A", "Data", "sum", <<>>, <<>>, <<>>, <<Value("X"), Value("Y")>>),
      Given("B", "Data", "record", <<>>, <<Field("f", Ref(3), <<>>)>>, <<>>, <<>>),
      Given("Q", "Object", "none", <<>>, <<Field("b", Ref(4), <<>>)>>, <<>>, <<>>),
      Given("U", "Union", "none", <<>>, <<>>, <<5>>, <<>>)>>,
    Config(0, "", 5, 5, Undefined, <<3, 4, 5, 6>>, <<>>))

Snapshots == {EmptySnapshot, ObjectSnapshot, DataSnapshot}

Definitions ==
  { SchemaDefinition("sd", <<OperationType("query", "A")>>),
    SchemaDefinition("", <<OperationType("mutation", "B")>>),
    SchemaDefinition("", <<OperationType("subscription", "__Type")>>),
    OperationDefinition,
    ObjectTypeDefinition("A", <<>>,
      <<FieldDef("b", Named("B"), <<>>),
        FieldDef("a", ListOf("A"), <<InputValue("x", Named("String"))>>)>>),
    Without(InterfaceTypeDefinition("B", <<>>,
              <<Without(FieldDef("a", Named("A"), <<>>), {"arguments"})>>),
            {"interfaces"}),
    ObjectTypeDefinition("B", <<"A">>, <<FieldDef("f", NonNullOf("String"), <<>>)>>),
    UnionTypeDefinition("A", <<"B">>),
    ScalarTypeDefinition("String"),
    ObjectTypeDefinition("__Type", <<>>, <<FieldDef("b", Named("B"), <<>>)>>),
    DataTypeDefinition("A",
      <<Variant("X", <<InputValue("f", Named("B"))>>),
        Without(Variant("Y", <<>>), {"fields"})>>),
    DataTypeDefinition("B", <<Variant("B", <<InputValue("f", Named("A"))>>)>>),
    DataTypeDefinition("A", <<Variant("A", <<>>)>>),
    DirectiveDefinition("d", <<InputValue("x", Named("B"))>>),
    ObjectTypeExtension("A", <<>>, <<FieldDef("f", Named("String"), <<>>)>>),
    ObjectTypeExtension("A", <<>>, <<FieldDef("f", Named("B"), <<>>)>>),
    ObjectTypeExtension("String", <<>>, <<FieldDef("f", Named("A"), <<>>)>>),
    ObjectTypeExtension("B", <<"A">>, <<>>),
    DataTypeDefinition("B", <<Without(Variant("B", <<>>), {"fields"})>>) }

Documents(n) == UNION {[1..k -> Definitions] : k \in 0..n}

\* What the caller extends with: one document, or two in turn.
DocumentSequences ==
  {<<d>> : d \in Documents(MaxDefs)}
  \cup {<<ds[1], ds[2]>> :
          ds \in {x \in Documents(MaxDefs - 1) \X Documents(MaxDefs - 1) :
                    /\ x[1] # <<>>
                    /\ x[2] # <<>>
                    /\ Len(x[1]) + Len(x[2]) <= MaxDefs}}

NoConfig == Config(0, "", Undefined, Undefined, Undefined, <<>>, <<>>)

----------------------------------------------------------------------------
VARIABLES
  heap,            \* the type objects, by identity
  typeMaps,        \* the registry of every call that built a config
  schemas,         \* the schemas there are, by identity: the config of each
  current,         \* the schema the caller holds
  docs,            \* the documents the caller extends with, in turn
  ncalls,          \* the number of calls of extendSchema made
  pc,              \* "ready", or "failed" once a call has thrown
  error,           \* what the failed call threw
  schemaConfig,    \* the argument of the last call of extendSchemaImpl
  extendedConfig,  \* what it returned
  thrown           \* the reads of deferred bodies that threw: [type, err]

vars == <<heap, typeMaps, schemas, current, docs, ncalls, pc, error,
          schemaConfig, extendedConfig, thrown>>

Init ==
  \E s \in Snapshots, ds \in DocumentSequences :
    /\ heap = s.heap
    /\ typeMaps = <<>>
    /\ schemas = <<s.config>>
    /\ current = 1
    /\ docs = ds
    /\ ncalls = 0
    /\ pc = "ready"
    /\ error = NoError
    /\ schemaConfig = NoConfig
    /\ extendedConfig = NoConfig
    /\ thrown = {}

\* schema.toConfig(): a new config object each time.
SchemaToConfig(schema, id) == [schema EXCEPT !.id = id]

\* The rest of extendSchema, extendSchemaImpl having given r for the config
\* cfg: the same schema when it gave cfg itself, a new schema otherwise.
AfterImpl(cfg, r) ==
  /\ schemaConfig' = cfg
  /\ IF r.err # NoError
     THEN /\ pc' = "failed"
          /\ error' = r.err
          /\ heap' = SubSeq(r.heap, 1, Len(heap))
          /\ extendedConfig' = NoConfig
          /\ UNCHANGED <<typeMaps, schemas, current>>
     ELSE /\ extendedConfig' = r.config
          /\ UNCHANGED <<pc, error>>
          /\ IF cfg.id = r.config.id
             THEN UNCHANGED <<heap, typeMaps, schemas, current>>
             ELSE /\ heap' = r.heap
                  /\ typeMaps' = Append(typeMaps, r.typeMap)
                  /\ schemas' = Append(schemas, r.config)
                  /\ current' = Len(schemas) + 1

(* extendSchema(schema, documentAST) with a document that passes           *)
(* assertValidSDLExtension, or with assumeValid or assumeValidSDL set.     *)
ExtendSchema ==
  /\ pc = "ready"
  /\ ncalls < Len(docs)
  /\ ncalls' = ncalls + 1
  /\ AfterImpl(SchemaToConfig(schemas[current], 2 * ncalls + 1),
               extendSchemaImpl(heap, typeMaps,
                                SchemaToConfig(schemas[current], 2 * ncalls + 1),
                                docs[ncalls + 1], 2 * ncalls + 2))
  /\ UNCHANGED <<docs, thrown>>

(* extendSchema with a document assertValidSDLExtension rejects.           *)
ExtendSchemaInvalid ==
  /\ pc = "ready"
  /\ ncalls < Len(docs)
  /\ ncalls' = ncalls + 1
  /\ pc' = "failed"
  /\ error' = "ValidationError"
  /\ UNCHANGED <<heap, typeMaps, schemas, current, docs, schemaConfig,
                 extendedConfig, thrown>>

HasPending(o) ==
  ~heap[o].interfaces.done \/ ~heap[o].fields.done \/ ~heap[o].types.done

AfterRead(o, r) ==
  /\ heap' = r.heap
  /\ thrown' = IF r.err # NoError THEN thrown \cup {[type |-> o, err |-> r.err]}
               ELSE thrown

(* A consumer of one of the schemas reads the bodies of one of its types.  *)
ReadType(o) ==
  /\ \E i \in 1..Len(schemas) : o \in SeqToSet(schemas[i].types)
  /\ HasPending(o)
  /\ \A t \in thrown : t.type # o
  /\ AfterRead(o, ReadBodies(heap, typeMaps, o))
  /\ UNCHANGED <<typeMaps, schemas, current, docs, ncalls, pc, error,
                 schemaConfig, extendedConfig>>

Next ==
  \/ ExtendSchema
  \/ ExtendSchemaInvalid
  \/ \E o \in 1..Len(heap) : ReadType(o)

Spec == Init /\ [][Next]_vars

----------------------------------------------------------------------------
(* What the properties below say of a call: the document of the call just  *)
(* made, whether it reached extendSchemaImpl, whether it returned, and     *)
(* whether it returned a new config.                                       *)
LastDoc == docs[ncalls]
Called == ncalls >= 1 /\ error # "ValidationError"
Succeeded == Called /\ pc = "ready"
Rebuilt == Succeeded /\ extendedConfig.id # schemaConfig.id
LastTypeMap == typeMaps[Len(typeMaps)]

ExtensionKinds == {"ObjectTypeExtension"}

\* No type definition, no extension fragment, no directive definition and
\* no schema definition.
IsNoOpDocument(definitions) ==
  \A i \in 1..Len(definitions) :
    /\ ~isTypeDefinitionNode(definitions[i])
    /\ definitions[i].kind \notin ExtensionKinds
    /\ ~isDirectiveDefinition(definitions[i])
    /\ ~isSchemaDefinition(definitions[i])

(* C1: a call of extendSchema whose document has no type definition, no    *)
(* extension fragment, no directive definition and no schema definition    *)
(* gets from extendSchemaImpl the very config object it passed, and        *)
(* returns the very schema object it was given; nothing is created.        *)
C1_NoOpIdentity ==
  [][(/\ ncalls' = ncalls + 1
      /\ error' # "ValidationError"
      /\ IsNoOpDocument(docs[ncalls + 1]))
     => (/\ pc' = "ready"
         /\ extendedConfig'.id = schemaConfig'.id
         /\ extendedConfig' = schemaConfig'
         /\ current' = current
         /\ schemas' = schemas
         /\ heap' = heap)]_vars

C1_Witness ==
  /\ Succeeded
  /\ IsNoOpDocument(LastDoc)
  /\ LastDoc # <<>>
  /\ Len(schemas[current].types) > 0
  /\ extendedConfig.id = schemaConfig.id

----------------------------------------------------------------------------
\* What a consumer can observe of the type o: its name, kind and shape and
\* what reading each of its bodies gives.
Observed(h, tms, o) ==
  [name |-> h[o].name, kind |-> h[o].kind, shape |-> h[o].shape,
   interfaces |-> getInterfaces(h, tms, o), fields |-> getFields(h, tms, o),
   types |-> getTypes(h, tms, o), values |-> h[o].values]

(* C2: no call of extendSchema, failed or not, and no read of a deferred   *)
(* body changes a config there was before the step (its type list,         *)
(* directive list, roots and description) or what can be observed of a     *)
(* type there was before the step (fields, interfaces, members, variants). *)
C2_OriginalNeverMutated ==
  [][/\ \A i \in 1..Len(schemas) : schemas'[i] = schemas[i]
     /\ Len(heap') >= Len(heap)
     /\ \A o \in 1..Len(heap) :
          Observed(heap', typeMaps', o) = Observed(heap, typeMaps, o)]_vars

\* A second call has rebuilt the types of the first, and a deferred body of
\* one of the types it made has been read since.
C2_Witness ==
  /\ Rebuilt
  /\ ncalls = 2
  /\ Len(schemas) = 3
  /\ Len(schemas[1].types) > 2
  /\ \E o \in SeqToSet(schemas[3].types) :
       /\ heap[o].how = "extend"
       /\ heap[o].fields.done
       /\ heap[o].fields.val # <<>>

----------------------------------------------------------------------------
BuiltinNames == {stdTypeMap[i].name : i \in 1..Len(stdTypeMap)}

DefinesName(definitions, n) ==
  \E i \in 1..Len(definitions) :
    isTypeDefinitionNode(definitions[i]) /\ definitions[i].name = n
ExtendsName(definitions, n) ==
  \E i \in 1..Len(definitions) :
    definitions[i].kind \in ExtensionKinds /\ definitions[i].name = n

\* The field definitions a built type gets its field map from.
FieldNodes(node) ==
  IF node.kind = "DataTypeDefinition" /\ ~isRecord(node) THEN <<>>
  ELSE IF node.kind = "DataTypeDefinition"
  THEN [i \in 1..Len(node.variants[1].fields) |->
          FieldDef(node.variants[1].fields[i].name,
                   node.variants[1].fields[i].type, <<>>)]
  ELSE node.fields

\* Every type expression of the field definitions fs that names n has, in
\* the field map fields read from the type, the named reference r.
FieldsNaming(fs, fields, n, r) ==
  \A i \in 1..Len(fs) :
    /\ LastAssigned(fs, fs[i].name).type.name = n
         => MapGet(fields, fs[i].name).type.ref = r
    /\ \A j \in 1..Len(LastAssigned(fs, fs[i].name).arguments) :
         LastAssigned(LastAssigned(fs, fs[i].name).arguments,
                      LastAssigned(fs, fs[i].name).arguments[j].name).type.name = n
           => MapGet(MapGet(fields, fs[i].name).args,
                     LastAssigned(fs, fs[i].name).arguments[j].name).ref = r

\* The bodies read so far of the types the document of call c defined
\* resolve every type expression naming n to r.
DocumentRefsResolveTo(c, n, r) ==
  \A o \in 1..Len(heap) :
    (heap[o].how = "build" /\ heap[o].call = c) =>
      /\ heap[o].fields.done
           => FieldsNaming(FieldNodes(heap[o].node), heap[o].fields.val, n, r)
      /\ heap[o].interfaces.done
           => \A i \in 1..Len(heap[o].node.interfaces) :
                heap[o].node.interfaces[i] = n => heap[o].interfaces.val[i] = r
      /\ heap[o].types.done
           => \A i \in 1..Len(heap[o].node.types) :
                heap[o].node.types[i] = n => heap[o].types.val[i] = r

\* The bodies read so far of the types call c rebuilt resolve every
\* reference the original held to a type named n to r.
ExistingRefsResolveTo(c, n, r) ==
  \A o \in 1..Len(heap) :
    (heap[o].how = "extend" /\ heap[o].call = c /\ heap[o].fields.done) =>
      \A i \in 1..Len(heap[heap[o].from].fields.val) :
        (/\ heap[heap[o].from].fields.val[i].val.type.ref # Undefined
         /\ heap[heap[heap[o].from].fields.val[i].val.type.ref].name = n)
          => heap[o].fields.val[i].val.type.ref = r

\* The instance the type list of the config given to the call has under n.
InputEntry(n) ==
  MapGet(Assigned([i \in 1..Len(schemaConfig.types) |->
                     TypeEntry(heap[schemaConfig.types[i]].name,
                               schemaConfig.types[i])]), n)

----------------------------------------------------------------------------
\* The type the config the call returned lists under the name n.
OutputEntry(n) ==
  MapGet(Assigned([i \in 1..Len(extendedConfig.types) |->
                     TypeEntry(heap[extendedConfig.types[i]].name,
                               extendedConfig.types[i])]), n)

\* Fragments i and j of the document, i before j, extend the same object or
\* interface type of the input config.
TwoFragments(definitions, i, j) ==
  /\ i < j
  /\ definitions[i].kind \in ExtensionKinds
  /\ definitions[j].kind \in ExtensionKinds
  /\ definitions[i].name = definitions[j].name
  /\ definitions[i].name \notin BuiltinNames
  /\ InputEntry(definitions[i].name) # Undefined
  /\ heap[InputEntry(definitions[i].name)].kind \in {"Object", "Interface"}

\* The field map fields has exactly one entry named as the field f, and its
\* type is the type expression of f.
HoldsField(fields, f) ==
  /\ fields.err = NoError
  /\ Cardinality({k \in 1..Len(fields.val) : fields.val[k].name = f.name}) = 1
  /\ MapGet(fields.val, f.name) # Undefined
  /\ MapGet(fields.val, f.name).type.wrap = f.type.wrap
  /\ MapGet(fields.val, f.name).type.ref # Undefined
  /\ heap[MapGet(fields.val, f.name).type.ref].name = f.type.name

(* C4: after a call whose document holds two extension fragments of the    *)
(* same existing type that declare a field of the same name, the output    *)
(* type has exactly one field of that name, the one of the later fragment. *)
C4_LastWriteWins ==
  Succeeded =>
    \A i, j \in 1..Len(LastDoc) :
      TwoFragments(LastDoc, i, j) =>
        \A a \in 1..Len(LastDoc[i].fields), b \in 1..Len(LastDoc[j].fields) :
          (/\ LastDoc[i].fields[a].name = LastDoc[j].fields[b].name
           /\ \A k \in (j + 1)..Len(LastDoc) :
                ~TwoFragments(LastDoc, j, k))
            => /\ OutputEntry(LastDoc[j].name) # Undefined
               /\ HoldsField(getFields(heap, typeMaps, OutputEntry(LastDoc[j].name)),
                             LastDoc[j].fields[b])

----------------------------------------------------------------------------
(* C5: no two entries of the type list of the config a call returned share *)
(* a name, whatever the document redefines, defines twice or names.        *)
C5_NameUniqueness ==
  Succeeded =>
    \A i, j \in 1..Len(extendedConfig.types) :
      i # j =>
        /\ extendedConfig.types[i] # extendedConfig.types[j]
        /\ heap[extendedConfig.types[i]].name # heap[extendedConfig.types[j]].name

\* The document redefined a name of the input config, or defined one name
\* twice.
C5_Witness ==
  /\ Rebuilt
  /\ Len(extendedConfig.types) >= 2
  /\ \E i \in 1..Len(LastDoc) :
       /\ isTypeDefinitionNode(LastDoc[i])
       /\ \/ InputEntry(LastDoc[i].name) # Undefined
          \/ \E j \in 1..Len(LastDoc) :
               /\ j # i
               /\ isTypeDefinitionNode(LastDoc[j])
               /\ LastDoc[j].name = LastDoc[i].name

----------------------------------------------------------------------------
\* The names the type expressions of a type definition use.
NamesOf(node) ==
  {FieldNodes(node)[i].type.name : i \in 1..Len(FieldNodes(node))}
  \cup UNION {{FieldNodes(node)[i].arguments[j].type.name :
                 j \in 1..Len(FieldNodes(node)[i].arguments)} :
              i \in 1..Len(FieldNodes(node))}
  \cup SeqToSet(node.interfaces)
  \cup SeqToSet(node.types)

Known(tm, n) == n \in BuiltinNames \/ MapHas(tm, n)

\* Definition i is the one the registry keeps for its name.
Kept(definitions, i) ==
  /\ isTypeDefinitionNode(definitions[i])
  /\ definitions[i].name \notin BuiltinNames
  /\ \A k \in (i + 1)..Len(definitions) :
       ~(isTypeDefinitionNode(definitions[k])
         /\ definitions[k].name = definitions[i].name)

\* Building each type definition of the document does not throw: no data
\* type definition is without variants or has a single variant without a
\* fields list.
Buildable(definitions) ==
  \A i \in 1..Len(definitions) :
    isTypeDefinitionNode(definitions[i])
      => buildType(<<>>, definitions[i], 1, <<>>).err = NoError

\* Definitions i and j have each a field whose type names the other; with
\* i = j, a field whose type names the type itself.
Cycle(definitions, i, j) ==
  /\ Kept(definitions, i)
  /\ Kept(definitions, j)
  /\ \E a \in 1..Len(FieldNodes(definitions[i])) :
       FieldNodes(definitions[i])[a].type.name = definitions[j].name
  /\ \E b \in 1..Len(FieldNodes(definitions[j])) :
       FieldNodes(definitions[j])[b].type.name = definitions[i].name

(* C6: a first call whose document holds only type definitions, each of    *)
(* which can be built, returns a config whatever the cycles among them;    *)
(* and after a call whose document defines types                           *)
(* that refer to each other through a field (or a type that refers to      *)
(* itself), reading the fields of one of them does not throw when every    *)
(* name it uses has an entry, and gives for the field the very instance    *)
(* the output type list holds under the name of the other.                 *)
C6_CycleSafety ==
  /\ (/\ Called
      /\ ncalls = 1
      /\ \A i \in 1..Len(LastDoc) : isTypeDefinitionNode(LastDoc[i])
      /\ Buildable(LastDoc)
      /\ \E i, j \in 1..Len(LastDoc) : Cycle(LastDoc, i, j))
       => Rebuilt
  /\ Rebuilt =>
       \A i, j \in 1..Len(LastDoc) :
         Cycle(LastDoc, i, j) =>
           /\ OutputEntry(LastDoc[i].name) # Undefined
           /\ OutputEntry(LastDoc[j].name) # Undefined
           /\ heap[OutputEntry(LastDoc[i].name)].node = LastDoc[i]
           /\ (\A n \in NamesOf(LastDoc[i]) : Known(LastTypeMap, n))
                => \A t \in thrown : t.type # OutputEntry(LastDoc[i].name)
           /\ heap[OutputEntry(LastDoc[i].name)].fields.done
                => FieldsNaming(FieldNodes(LastDoc[i]),
                                heap[OutputEntry(LastDoc[i].name)].fields.val,
                                LastDoc[j].name, OutputEntry(LastDoc[j].name))

\* Two types that refer to each other have both had their fields read.
C6_Witness ==
  /\ Rebuilt
  /\ \E i, j \in 1..Len(LastDoc) :
       /\ i # j
       /\ Cycle(LastDoc, i, j)
       /\ heap[OutputEntry(LastDoc[i].name)].fields.done
       /\ heap[OutputEntry(LastDoc[j].name)].fields.done
       /\ \E a \in 1..Len(heap[OutputEntry(LastDoc[i].name)].fields.val) :
            heap[OutputEntry(LastDoc[i].name)].fields.val[a].val.type.ref
              = OutputEntry(LastDoc[j].name)

----------------------------------------------------------------------------
VariantNames(node) == {node.variants[i].name : i \in 1..Len(node.variants)}

(* C7: a data type built from a definition is a record, exposing the       *)
(* fields of its variant and no tags, exactly when the definition has one  *)
(* variant and that variant has at least one field; otherwise it is a sum  *)
(* exposing one tag per variant name and no field.                         *)
C7_RecordSumClassification ==
  \A o \in 1..Len(heap) :
    (heap[o].how = "build" /\ heap[o].kind = "Data") =>
      IF Len(heap[o].node.variants) = 1
         /\ Len(heap[o].node.variants[1].fields) >= 1
      THEN /\ heap[o].shape = "record"
           /\ isInputObjectType(heap[o])
           /\ heap[o].values = <<>>
           /\ heap[o].fields.done =>
                /\ {heap[o].fields.val[i].name : i \in 1..Len(heap[o].fields.val)}
                     = {heap[o].node.variants[1].fields[i].name :
                          i \in 1..Len(heap[o].node.variants[1].fields)}
                /\ heap[o].fields.val # <<>>
      ELSE /\ heap[o].shape = "sum"
           /\ isEnumType(heap[o])
           /\ heap[o].fields = Done(<<>>)
           /\ {heap[o].values[i].name : i \in 1..Len(heap[o].values)}
                = VariantNames(heap[o].node)
           /\ Len(heap[o].values) = Cardinality(VariantNames(heap[o].node))

\* A record whose fields have been read has been built, and a sum of one
\* variant or with a field on its first variant.
C7_Witness ==
  /\ \E o \in 1..Len(heap) :
       /\ heap[o].how = "build"
       /\ heap[o].shape = "record"
       /\ heap[o].fields.done
  /\ \E o \in 1..Len(heap) :
       /\ heap[o].how = "build"
       /\ heap[o].shape = "sum"
       /\ \/ Len(heap[o].node.variants) = 1
          \/ Len(heap[o].node.variants[1].fields) > 0

----------------------------------------------------------------------------
Operations == {"query", "mutation", "subscription"}

\* The schema definition of the document declares the operation.
Declares(schemaDef, operation) ==
  /\ schemaDef # NoNode
  /\ \E i \in 1..Len(schemaDef.operationTypes) :
       schemaDef.operationTypes[i].operation = operation

\* The type name it declares for it.
Declared(schemaDef, operation) ==
  schemaDef.operationTypes[
    CHOOSE i \in 1..Len(schemaDef.operationTypes) :
      /\ schemaDef.operationTypes[i].operation = operation
      /\ \A j \in (i + 1)..Len(schemaDef.operationTypes) :
           schemaDef.operationTypes[j].operation # operation].type

\* The entry for the name n: the builtin registry's, else the call's.
EntryFor(n) ==
  IF n \in BuiltinNames THEN MapGet(stdTypeMap, n) ELSE OutputEntry(n)

(* C8 as stated: after a call that returned a new config, a root the       *)
(* schema definition of the document declares is the entry for the         *)
(* declared name; a root it does not declare is the root of the input      *)
(* config looked up by name in the registry of the call, and is absent     *)
(* only if the input config had no such root.                              *)
C8_RootOverride ==
  Rebuilt =>
    \A op \in Operations :
      IF Declares(SchemaDef(LastDoc), op)
      THEN /\ extendedConfig[op] # Undefined
           /\ extendedConfig[op] = EntryFor(Declared(SchemaDef(LastDoc), op))
      ELSE /\ schemaConfig[op] = Undefined => extendedConfig[op] = Undefined
           /\ schemaConfig[op] # Undefined
                => extendedConfig[op] = OutputEntry(heap[schemaConfig[op]].name)
           /\ extendedConfig[op] = Undefined => schemaConfig[op] = Undefined

(* C8 amended: a declared root is the entry for the declared name, in the  *)
(* builtin registry first and in the registry of the call otherwise; an    *)
(* undeclared root is the type the output type list holds under the name   *)
(* of the input config's root, and it is absent if the input config had no *)
(* such root or if neither the type list of the input config nor the       *)
(* document has a type of that name.                                       *)
C8_RootOverrideAmended ==
  Rebuilt =>
    \A op \in Operations :
      IF Declares(SchemaDef(LastDoc), op)
      THEN /\ extendedConfig[op] # Undefined
           /\ heap[extendedConfig[op]].name = Declared(SchemaDef(LastDoc), op)
           /\ extendedConfig[op] = EntryFor(Declared(SchemaDef(LastDoc), op))
      ELSE IF schemaConfig[op] = Undefined THEN extendedConfig[op] = Undefined
      ELSE IF \/ InputEntry(heap[schemaConfig[op]].name) # Undefined
              \/ DefinesName(LastDoc, heap[schemaConfig[op]].name)
      THEN /\ extendedConfig[op] # Undefined
           /\ heap[extendedConfig[op]].name = heap[schemaConfig[op]].name
           /\ extendedConfig[op] = OutputEntry(heap[schemaConfig[op]].name)
      ELSE extendedConfig[op] = Undefined

\* The document declared one root, replacing the one there was, and left
\* another to be carried over to the rebuilt instance of its type.
C8_Witness ==
  /\ Rebuilt
  /\ \E op \in Operations :
       /\ Declares(SchemaDef(LastDoc), op)
       /\ schemaConfig[op] # Undefined
       /\ heap[extendedConfig[op]].name # heap[schemaConfig[op]].name
  /\ \E op \in Operations :
       /\ ~Declares(SchemaDef(LastDoc), op)
       /\ schemaConfig[op] # Undefined
       /\ extendedConfig[op] # Undefined
       /\ extendedConfig[op] # schemaConfig[op]

----------------------------------------------------------------------------
(* Sequential against batched.  What a consumer sees of a type list: for   *)
(* every type its name and the names in its field map, its tags, its       *)
(* interface list and its member list, or the error reading them throws.   *)
NameOfRef(h, r) == IF r = Undefined THEN "" ELSE h[r].name
EntryNames(body) ==
  [err |-> body.err,
   names |-> IF body.err # NoError THEN {}
             ELSE {body.val[i].name : i \in 1..Len(body.val)}]
RefNames(h, body) ==
  [err |-> body.err,
   names |-> IF body.err # NoError THEN <<>>
             ELSE [i \in 1..Len(body.val) |-> NameOfRef(h, body.val[i])]]

ShapeOf(h, tms, o) ==
  [name |-> h[o].name,
   fields |-> EntryNames(getFields(h, tms, o)),
   values |-> {h[o].values[i].name : i \in 1..Len(h[o].values)},
   interfaces |-> RefNames(h, getInterfaces(h, tms, o)),
   types |-> RefNames(h, getTypes(h, tms, o))]

Shapes(h, tms, types) == {ShapeOf(h, tms, types[i]) : i \in 1..Len(types)}

Outcome(failed, shapes) == [failed |-> failed, shapes |-> shapes]

\* What extending in turn with docs[1] and docs[2] came to.
Sequential ==
  IF pc = "failed" THEN Outcome(TRUE, {})
  ELSE Outcome(FALSE, Shapes(heap, typeMaps, schemas[current].types))

\* The objects of the original snapshot: those no call made.
OriginalHeap == SelectSeq(heap, LAMBDA t : t.how = "given")

OutcomeOf(r) ==
  IF r.err # NoError THEN Outcome(TRUE, {})
  ELSE Outcome(FALSE, Shapes(r.heap, <<r.typeMap>>, r.config.types))

\* What extending the original snapshot once with the definitions of
\* docs[1] followed by those of docs[2] comes to.
Batched ==
  OutcomeOf(extendSchemaImpl(OriginalHeap, <<>>, schemas[1],
                             docs[1] \o docs[2], 2))

\* The names a document defines or extends.
Targets(definitions) ==
  {definitions[i].name :
     i \in {j \in 1..Len(definitions) :
              \/ isTypeDefinitionNode(definitions[j])
              \/ definitions[j].kind \in ExtensionKinds}}

\* Both documents have been extended with in turn, or the turn they failed
\* at has been reached.
BothExtended ==
  /\ Len(docs) = 2
  /\ Called
  /\ ncalls = 2 \/ pc = "failed"
  /\ Targets(docs[1]) \cap Targets(docs[2]) = {}

\* The names the type expressions of a document use: those of its types,
\* of its directives' arguments and of its schema definitions.
UsedNames(definitions) ==
  UNION {NamesOf(definitions[i]) \cup
         {definitions[i].arguments[j].type.name :
            j \in 1..Len(definitions[i].arguments)} \cup
         {definitions[i].operationTypes[j].type :
            j \in 1..Len(definitions[i].operationTypes)} :
         i \in 1..Len(definitions)}

\* Every name docs[1] uses is builtin, or a type of the original snapshot,
\* or defined by docs[1] itself.
FirstStandsAlone ==
  \A n \in UsedNames(docs[1]) :
    \/ n \in BuiltinNames
    \/ \E i \in 1..Len(schemas[1].types) : heap[schemas[1].types[i]].name = n
    \/ DefinesName(docs[1], n)

----------------------------------------------------------------------------
\* The registry of the call just made has, or would have, an entry for n.
KnownInCall(n) ==
  \/ n \in BuiltinNames
  \/ InputEntry(n) # Undefined
  \/ DefinesName(LastDoc, n)

\* The names resolved while the call runs: the argument types of the
\* directive definitions and the root operation types of the schema
\* definition.
EagerNames(definitions) ==
  UNION {{definitions[i].arguments[j].type.name :
            j \in 1..Len(definitions[i].arguments)} :
         i \in {k \in 1..Len(definitions) : isDirectiveDefinition(definitions[k])}}
  \cup {SchemaDef(definitions).operationTypes[j].type :
          j \in 1..Len(SchemaDef(definitions).operationTypes)}

\* The names resolved when a body of a type the document defines is read:
\* field types, argument types, interfaces and members.
DeferredNames(definitions) ==
  UNION {NamesOf(definitions[i]) :
         i \in {k \in 1..Len(definitions) : Kept(definitions, k)}}

(* C10 as stated: a call whose document has a type expression (a field     *)
(* type, an argument type, an interface, a member, a directive argument    *)
(* type or a root operation type) naming a type in neither registry fails  *)
(* with UnknownType and returns no config.                                 *)
C10_UnknownTypeFailFast ==
  (/\ Called
   /\ \E n \in EagerNames(LastDoc) \cup DeferredNames(LastDoc) : ~KnownInCall(n))
    => /\ pc = "failed"
       /\ error = UnknownType
       /\ extendedConfig = NoConfig

(* C10 amended: a call whose document has a directive argument type or a   *)
(* root operation type naming a type in neither registry fails and returns *)
(* no config, with UnknownType if it is the first call and building no    *)
(* type of the document threw before.  A field type, an                    *)
(* argument type, an interface or a member naming such a type does not     *)
(* fail the call: a first call whose directive argument types and root     *)
(* operation types are known and whose type definitions can each be built  *)
(* returns, and the type with the unknown name is in the output type list; *)
(* its body throws UnknownType each time it is read and is never memoized. *)
C10_UnknownTypeAmended ==
  /\ (Called /\ \E n \in EagerNames(LastDoc) : ~KnownInCall(n))
       => /\ pc = "failed"
          /\ extendedConfig = NoConfig
          /\ (ncalls = 1 /\ Buildable(LastDoc)) => error = UnknownType
  /\ (/\ Called
      /\ ncalls = 1
      /\ Buildable(LastDoc)
      /\ \A n \in EagerNames(LastDoc) : KnownInCall(n))
       => Succeeded
  /\ Rebuilt =>
       \A i \in 1..Len(LastDoc) :
         (Kept(LastDoc, i) /\ \E n \in NamesOf(LastDoc[i]) : ~KnownInCall(n))
           => /\ OutputEntry(LastDoc[i].name) # Undefined
              /\ heap[OutputEntry(LastDoc[i].name)].node = LastDoc[i]
              /\ HasPending(OutputEntry(LastDoc[i].name))
              /\ \A t \in thrown :
                   t.type = OutputEntry(LastDoc[i].name) => t.err = UnknownType

\* The call returned a config with a type whose field names an unknown
\* type, and reading that type has thrown UnknownType.
C10_Witness ==
  /\ Rebuilt
  /\ \E i \in 1..Len(LastDoc) :
       /\ Kept(LastDoc, i)
       /\ \E n \in NamesOf(LastDoc[i]) : ~KnownInCall(n)
       /\ [type |-> OutputEntry(LastDoc[i].name), err |-> UnknownType] \in thrown

----------------------------------------------------------------------------
(* C11: the description of the config a call returns is that of the schema *)
(* definition of the document when it has one, and otherwise the           *)
(* description of the config the call was given.                           *)
C11_Description ==
  Succeeded =>
    extendedConfig.description =
      IF SchemaDef(LastDoc) # NoNode THEN SchemaDef(LastDoc).description
      ELSE schemaConfig.description

----------------------------------------------------------------------------
\* The bodies the constructor of a type's kind takes as thunks.
Deferred(type) ==
  IF type.kind \in {"Object", "Interface"} THEN {"interfaces", "fields"}
  ELSE IF type.kind = "Union" THEN {"types"}
  ELSE IF type.kind = "Data" /\ type.shape = "record" THEN {"fields"}
  ELSE {}

\* What evaluating now the thunk of a body of o gives.
Evaluated(o, body) ==
  IF body = "interfaces"
  THEN InterfacesThunk(heap, Registry(typeMaps, heap[o]), heap[o])
  ELSE IF body = "fields"
  THEN FieldsThunk(heap, Registry(typeMaps, heap[o]), heap[o])
  ELSE TypesThunk(heap, Registry(typeMaps, heap[o]), heap[o])

(* C12: whatever calls and reads have happened since, evaluating the thunk *)
(* of a body that has been memoized gives the memoized value again (the    *)
(* same entries in the same order, the same instances), and evaluating the *)
(* thunk of a body whose read threw throws the same error again.           *)
C12_IdempotentReads ==
  \A o \in 1..Len(heap) :
    heap[o].how # "given" =>
      /\ \A body \in Deferred(heap[o]) :
           heap[o][body].done => Evaluated(o, body) = Ok(heap[o][body].val)
      /\ \A t \in thrown :
           t.type = o =>
             \E body \in Deferred(heap[o]) :
               /\ ~heap[o][body].done
               /\ Evaluated(o, body) = Throw(t.err)

\* The fields of a type of the first call were memoized, with a reference
\* to a type of that call, and a second call has built its registry since.
C12_Witness ==
  /\ Len(typeMaps) = 2
  /\ \E o \in 1..Len(heap) :
       /\ heap[o].how # "given"
       /\ heap[o].call = 1
       /\ heap[o].fields.done
       /\ \E i \in 1..Len(heap[o].fields.val) :
            /\ heap[o].fields.val[i].val.type.ref # Undefined
            /\ heap[heap[o].fields.val[i].val.type.ref].how # "given"

----------------------------------------------------------------------------
\* The named references of a field map, as a function of where they stand:
\* <<i, 0>> is the type of field i and <<i, j>> that of its argument j.
FieldRefs(fields) ==
  [p \in {<<i, 0>> : i \in 1..Len(fields)}
         \cup UNION {{<<i, j>> : j \in 1..Len(fields[i].val.args)} :
                     i \in 1..Len(fields)} |->
     IF p[2] = 0 THEN fields[p[1]].val.type.ref
     ELSE fields[p[1]].val.args[p[2]].val.ref]

\* The references the rebuilt type o re-resolved in the bodies read so far:
\* the reference the original held (old) and what it became (new).
ExistingRefs(o) ==
  (IF heap[o].fields.done
   THEN {[old |-> FieldRefs(heap[heap[o].from].fields.val)[p],
          new |-> FieldRefs(heap[o].fields.val)[p]] :
         p \in DOMAIN FieldRefs(heap[heap[o].from].fields.val)}
   ELSE {})
  \cup (IF heap[o].interfaces.done
        THEN {[old |-> heap[heap[o].from].interfaces.val[i],
               new |-> heap[o].interfaces.val[i]] :
              i \in 1..Len(heap[heap[o].from].interfaces.val)}
        ELSE {})
  \cup (IF heap[o].types.done
        THEN {[old |-> heap[heap[o].from].types.val[i],
               new |-> heap[o].types.val[i]] :
              i \in 1..Len(heap[heap[o].from].types.val)}
        ELSE {})

\* The type expressions the built type o resolved in the bodies read so
\* far: the name of the expression and the reference it became.
DocumentRefs(o) ==
  (IF heap[o].fields.done /\ "fields" \in Deferred(heap[o])
   THEN {[name |-> LastAssigned(FieldNodes(heap[o].node),
                                FieldNodes(heap[o].node)[i].name).type.name,
          new |-> MapGet(heap[o].fields.val,
                         FieldNodes(heap[o].node)[i].name).type.ref] :
         i \in 1..Len(FieldNodes(heap[o].node))}
   ELSE {})
  \cup (IF heap[o].interfaces.done
        THEN {[name |-> heap[o].node.interfaces[i],
               new |-> heap[o].interfaces.val[i]] :
              i \in 1..Len(heap[o].interfaces.val)}
        ELSE {})
  \cup (IF heap[o].types.done
        THEN {[name |-> heap[o].node.types[i], new |-> heap[o].types.val[i]] :
              i \in 1..Len(heap[o].types.val)}
        ELSE {})

\* Every type expression of the bodies read of the types built from a
\* document became what getNamedType gives for its name.
NewExpressionsResolved ==
  \A o \in 1..Len(heap) :
    heap[o].how = "build" =>
      \A p \in DocumentRefs(o) :
        /\ p.new # Undefined
        /\ p.new = IF p.name \in BuiltinNames THEN MapGet(stdTypeMap, p.name)
                   ELSE MapGet(typeMaps[heap[o].call], p.name)

(* C13 as stated: a reference held by an existing type that a rebuilt type *)
(* re-resolved, and a type expression of a document that a built type      *)
(* resolved, became the builtin instance of its name if there is one, else *)
(* the entry of the registry of the call; neither became undefined.        *)
C13_SameResolution ==
  /\ NewExpressionsResolved
  /\ \A o \in 1..Len(heap) :
       heap[o].how = "extend" =>
         \A p \in ExistingRefs(o) :
           p.old # Undefined =>
             /\ p.new # Undefined
             /\ p.new = IF heap[p.old].name \in BuiltinNames
                        THEN MapGet(stdTypeMap, heap[p.old].name)
                        ELSE MapGet(typeMaps[heap[o].call], heap[p.old].name)

(* C13 amended: a type expression of a document became the builtin         *)
(* instance of its name if there is one, else the entry of the registry of *)
(* the call, never undefined.  A reference held by an existing type became *)
(* the entry of the registry of the call under its name, the builtin       *)
(* registry not being looked up, and undefined when there is no entry.     *)
C13_SameResolutionAmended ==
  /\ NewExpressionsResolved
  /\ \A o \in 1..Len(heap) :
       heap[o].how = "extend" =>
         \A p \in ExistingRefs(o) :
           p.old # Undefined =>
             p.new = MapGet(typeMaps[heap[o].call], heap[p.old].name)

\* A rebuilt type whose original held a reference to a builtin type that is
\* not in the registry of the call has been read: the reference is now
\* undefined.  A type expression of a document has been resolved too.
C13_Witness ==
  /\ \E o \in 1..Len(heap) :
       /\ heap[o].how = "extend"
       /\ \E p \in ExistingRefs(o) :
            /\ p.old # Undefined
            /\ heap[p.old].name \in BuiltinNames
            /\ p.new = Undefined
  /\ \E o \in 1..Len(heap) :
       heap[o].how = "build" /\ \E p \in DocumentRefs(o) : p.name \in BuiltinNames

----------------------------------------------------------------------------
\* The interfaces the extension fragments of the type named n declare, in
\* the order of the document.
DeclaredInterfaces(definitions, n) ==
  Flatten([i \in 1..Len(definitions) |->
             IF definitions[i].kind \in ExtensionKinds /\ definitions[i].name = n
             THEN definitions[i].interfaces ELSE <<>>])

\* The object or interface type o of the input config is extended by the
\* document and not defined anew, and every interface it has or is given
\* is in the registry of the call.
InterfacesExtended(o) ==
  /\ heap[o].kind \in {"Object", "Interface"}
  /\ heap[o].name \notin BuiltinNames
  /\ ExtendsName(LastDoc, heap[o].name)
  /\ ~DefinesName(LastDoc, heap[o].name)
  /\ \A n \in SeqToSet(DeclaredInterfaces(LastDoc, heap[o].name)) : KnownInCall(n)
  /\ \A i \in 1..Len(heap[o].interfaces.val) :
       /\ heap[o].interfaces.val[i] # Undefined
       /\ KnownInCall(heap[heap[o].interfaces.val[i]].name)

(* C14: after a call whose document extends an existing object or          *)
(* interface type, the interface list of the output type names the         *)
(* interfaces of the original, in their order, and then the interfaces the *)
(* extension fragments declare, in the order of the document, one already  *)
(* there being named again.                                                *)
C14_InterfacesAppended ==
  Rebuilt =>
    \A k \in 1..Len(schemaConfig.types) :
      InterfacesExtended(schemaConfig.types[k]) =>
        /\ OutputEntry(heap[schemaConfig.types[k]].name) # Undefined
        /\ RefNames(heap, getInterfaces(heap, typeMaps,
                            OutputEntry(heap[schemaConfig.types[k]].name)))
             = [err |-> NoError,
                names |-> [i \in 1..Len(heap[schemaConfig.types[k]].interfaces.val) |->
                             heap[heap[schemaConfig.types[k]].interfaces.val[i]].name]
                          \o DeclaredInterfaces(LastDoc,
                                                heap[schemaConfig.types[k]].name)]

----------------------------------------------------------------------------
\* The kind of the type a type definition node describes.
KindOf(node) ==
  CASE node.kind = "ObjectTypeDefinition" -> "Object"
    [] node.kind = "InterfaceTypeDefinition" -> "Interface"
    [] node.kind = "UnionTypeDefinition" -> "Union"
    [] node.kind = "ScalarTypeDefinition" -> "Scalar"
    [] node.kind = "DataTypeDefinition" -> "Data"

\* Definition i of the document is the one that stands for its name, and
\* the input config has a type of that name.
Redefines(definitions, i) ==
  /\ Kept(definitions, i)
  /\ InputEntry(definitions[i].name) # Undefined

\* The type o has its kind and its bodies from the definition node alone:
\* each body that can be read names what the node names and nothing else.
SolelyFrom(o, node) ==
  /\ heap[o].how = "build"
  /\ heap[o].from = Undefined
  /\ heap[o].node = node
  /\ heap[o].kind = KindOf(node)
  /\ getFields(heap, typeMaps, o).err \in {NoError, UnknownType}
  /\ getFields(heap, typeMaps, o).err = NoError
       => EntryNames(getFields(heap, typeMaps, o)).names
            = {FieldNodes(node)[k].name : k \in 1..Len(FieldNodes(node))}
  /\ getInterfaces(heap, typeMaps, o).err = NoError
       => RefNames(heap, getInterfaces(heap, typeMaps, o)).names = node.interfaces
  /\ getTypes(heap, typeMaps, o).err = NoError
       => RefNames(heap, getTypes(heap, typeMaps, o)).names = node.types
  /\ {heap[o].values[k].name : k \in 1..Len(heap[o].values)}
       = IF node.kind = "DataTypeDefinition" /\ ~isRecord(node)
         THEN {node.variants[k].name : k \in 1..Len(node.variants)}
         ELSE {}

(* C15: a first call whose document defines anew a type of the input       *)
(* config, not a builtin one, whose type definitions can each be built and *)
(* whose directive argument types and root operation types are known,      *)
(* returns; and after every call that returned                             *)
(* the output type list has exactly one entry of that name, a type built   *)
(* from the definition alone: its kind, fields, variants, interfaces and   *)
(* members are those of the definition, none of the original.              *)
C15_ReplacedWithoutMerge ==
  /\ (/\ Called
      /\ ncalls = 1
      /\ \E i \in 1..Len(LastDoc) : Redefines(LastDoc, i)
      /\ Buildable(LastDoc)
      /\ \A n \in EagerNames(LastDoc) : KnownInCall(n))
       => Rebuilt
  /\ Succeeded =>
       \A i \in 1..Len(LastDoc) :
         Redefines(LastDoc, i) =>
           /\ Cardinality({k \in 1..Len(extendedConfig.types) :
                 heap[extendedConfig.types[k]].name = LastDoc[i].name}) = 1
           /\ OutputEntry(LastDoc[i].name) # InputEntry(LastDoc[i].name)
           /\ SolelyFrom(OutputEntry(LastDoc[i].name), LastDoc[i])

\* The call returned a config in which an object type with fields stands
\* where the input config had an interface type of the same name with other
\* fields, and the fields of the new type have been read.
C15_Witness ==
  /\ Rebuilt
  /\ \E i \in 1..Len(LastDoc) :
       /\ Redefines(LastDoc, i)
       /\ heap[InputEntry(LastDoc[i].name)].kind # KindOf(LastDoc[i])
       /\ heap[InputEntry(LastDoc[i].name)].fields.val # <<>>
       /\ heap[OutputEntry(LastDoc[i].name)].fields.done
       /\ heap[OutputEntry(LastDoc[i].name)].fields.val # <<>>
       /\ \A k \in 1..Len(heap[InputEntry(LastDoc[i].name)].fields.val) :
            ~MapHas(heap[OutputEntry(LastDoc[i].name)].fields.val,
                    heap[InputEntry(LastDoc[i].name)].fields.val[k].name)

----------------------------------------------------------------------------
\* The types the step has made.
Made == {o \in 1..Len(heap') : o > Len(heap)}

(* C16 as stated: when a call returns, no type it made has a field map, an *)
(* interface list, a member list or a variant list computed: the lists a   *)
(* type holds are those of a read made since.                              *)
C16_NothingComputedInSeeding ==
  [][\A o \in Made :
       /\ heap'[o].values = <<>>
       /\ \A body \in SeqToSet(Bodies) :
            heap'[o][body].done => heap'[o][body].val = <<>>]_vars

(* C16 amended: when a call returns, no object, interface, union or        *)
(* record-shaped data type it made has its field map, interface list or    *)
(* member list computed, and only reading such a type computes one; the    *)
(* variant list of a sum-shaped data type it made is computed: the         *)
(* variants of the definition for a built type, those of the original for  *)
(* a rebuilt one.  No other type holds variants.                           *)
C16_LazyButVariants ==
  [][/\ \A o \in Made :
          /\ \A body \in Deferred(heap'[o]) : ~heap'[o][body].done
          /\ \A body \in SeqToSet(Bodies) \ Deferred(heap'[o]) :
               heap'[o][body] = Done(<<>>)
          /\ heap'[o].values =
               IF heap'[o].kind = "Data" /\ heap'[o].shape = "sum"
               THEN IF heap'[o].how = "build"
                    THEN buildEnumValueMap(<<heap'[o].node>>)
                    ELSE heap'[heap'[o].from].values
               ELSE <<>>
     /\ \A o \in 1..Len(heap) :
          \A body \in Deferred(heap[o]) :
            (~heap[o][body].done /\ heap'[o][body].done)
              => \/ \E r \in 1..Len(heap) : ReadType(r) /\ r = o
                 \/ ExtendSchema /\ heap[o].call < ncalls']_vars

\* A call has just returned a config with a record-shaped data type and a
\* sum-shaped data type it made: the fields of the first are not computed,
\* the variants of the second are.
C16_Witness ==
  /\ Rebuilt
  /\ \E o, v \in SeqToSet(extendedConfig.types) :
       /\ heap[o].call = ncalls
       /\ heap[o].kind = "Data" /\ heap[o].shape = "record"
       /\ ~heap[o].fields.done
       /\ heap[v].call = ncalls
       /\ heap[v].kind = "Data" /\ heap[v].shape = "sum"
       /\ heap[v].values # <<>>

----------------------------------------------------------------------------
\* The definition with every list it was made without present and empty.
Filled(node) ==
  [node EXCEPT
     !.absent = {},
     !.fields = [i \in 1..Len(@) |-> [@[i] EXCEPT !.absent = {}]],
     !.variants = [i \in 1..Len(@) |-> [@[i] EXCEPT !.absent = {}]]]

\* A list of the definition, of one of its fields or of one of its variants
\* is absent.
LacksList(node) ==
  \/ node.absent # {}
  \/ \E i \in 1..Len(node.fields) : node.fields[i].absent # {}
  \/ \E i \in 1..Len(node.variants) : node.variants[i].absent # {}

\* What extending the original snapshot with the first document, its absent
\* lists present and empty, comes to.
WithListsPresent ==
  OutcomeOf(extendSchemaImpl(OriginalHeap, <<>>, schemas[1],
                             [i \in 1..Len(docs[1]) |-> Filled(docs[1][i])], 2))

(* C17: extending with a document in which optional lists are absent comes *)
(* to what extending with the same document, those lists present and       *)
(* empty, comes to: the call fails or returns alike, and reading the types *)
(* gives the same fields, variants, interfaces and members.  A data type   *)
(* whose only variant has no fields list is built as a sum of that variant *)
(* as it is with an empty fields list.                                     *)
C17_AbsentAsEmpty ==
  (/\ Called
   /\ ncalls = 1
   /\ \E i \in 1..Len(docs[1]) : LacksList(docs[1][i]))
    => Sequential = WithListsPresent

----------------------------------------------------------------------------
\* The range of a function.
Range(f) == {f[x] : x \in DOMAIN f}

\* The named types the type o refers to in the bodies that can be read.
RefsOfType(o) ==
  (IF getFields(heap, typeMaps, o).err = NoError
   THEN Range(FieldRefs(getFields(heap, typeMaps, o).val)) ELSE {})
  \cup (IF getInterfaces(heap, typeMaps, o).err = NoError
        THEN SeqToSet(getInterfaces(heap, typeMaps, o).val) ELSE {})
  \cup (IF getTypes(heap, typeMaps, o).err = NoError
        THEN SeqToSet(getTypes(heap, typeMaps, o).val) ELSE {})

\* The named types a config refers to: its roots, the argument types of
\* its directives and what its types refer to.
RefsOfConfig(config) ==
  ({config.query, config.mutation, config.subscription} \ {Undefined})
  \cup UNION {{config.directives[i].args[j].val.ref :
                 j \in 1..Len(config.directives[i].args)} :
              i \in 1..Len(config.directives)}
  \cup UNION {RefsOfType(config.types[i]) : i \in 1..Len(config.types)}

\* Every body of the types of the config can be read, and the type list of
\* the config has every type the config refers to.
Closed(config) ==
  /\ \A i \in 1..Len(config.types) :
       /\ getFields(heap, typeMaps, config.types[i]).err = NoError
       /\ getInterfaces(heap, typeMaps, config.types[i]).err = NoError
       /\ getTypes(heap, typeMaps, config.types[i]).err = NoError
  /\ RefsOfConfig(config) \subseteq SeqToSet(config.types)

(* C18 as stated: after a call that was given a closed config and made a   *)
(* new one, every named type the output refers to (roots, field and        *)
(* argument types, interfaces, members, directive argument types) is the   *)
(* instance the output type list has under its name.                       *)
C18_ReferenceClosure ==
  (Rebuilt /\ Closed(schemaConfig)) =>
    \A r \in RefsOfConfig(extendedConfig) :
      /\ r # Undefined
      /\ OutputEntry(heap[r].name) = r

(* C18 amended: every named type the output refers to is the instance the  *)
(* output type list has under its name or the builtin instance of its      *)
(* name, which the output type list need not have; none is a type of the   *)
(* input config that the call replaced.                                    *)
C18_ReferenceClosureAmended ==
  (Rebuilt /\ Closed(schemaConfig)) =>
    \A r \in RefsOfConfig(extendedConfig) :
      /\ r # Undefined
      /\ \/ OutputEntry(heap[r].name) = r
         \/ r = MapGet(stdTypeMap, heap[r].name)
      /\ (r \in SeqToSet(schemaConfig.types) /\ r # OutputEntry(heap[r].name))
           => r = MapGet(stdTypeMap, heap[r].name)

\* The output of a call given a closed config with types refers to a type
\* the call rebuilt, through a field that has been read, and to a builtin
\* instance its type list does not have.
C18_Witness ==
  /\ Rebuilt
  /\ Closed(schemaConfig)
  /\ \E r \in RefsOfConfig(extendedConfig) :
       /\ r # Undefined
       /\ r = MapGet(stdTypeMap, heap[r].name)
       /\ OutputEntry(heap[r].name) = Undefined
  /\ \E o \in SeqToSet(extendedConfig.types) :
       /\ heap[o].how = "extend"
       /\ heap[o].fields.done
       /\ \E r \in Range(FieldRefs(heap[o].fields.val)) :
            r # Undefined /\ heap[r].how = "extend"

====
